---- MODULE Spec2Model ----
(***************************************************************************)
(* One user group of the heterogeneous federated-learning simulation:      *)
(* the devices' datasets, cluster labels, distillation pools and counters, *)
(* the data-shuffling engine (User.send_data / User.shuffle_data), the     *)
(* optimizer's objective evaluation with its snapshot/restore, and the     *)
(* per-round flow of User.fit.                                             *)
(***************************************************************************)
EXTENDS Integers, Sequences, FiniteSets, TLC

\* ------------------------------------------------------------------ sizes
\* Number of samples of the training corpus split over the group's devices.
NumSamples == 2
\* Cap on the objective evaluations the solver makes in one optimization.
MaxEvals == 1

\* main.py: --devices default 6, --users default 2, --epochs default 2.
TotalDevices == 6
TotalUsers == 2
ServerEpochs == 2
\* cifar10 has 10 classes; User.shrinkage_ratio = 0.3 (3/10).
NUM_CLASSES == 10
ShrinkageTenths == 3
\* on_device_epochs in main.py.
OnDeviceEpochs == 3
\* STD_CORRECTION, "the factor of 10" of the objective.
STD_CORRECTION == 10

NumDevices == TotalDevices \div TotalUsers
NumClusters == (NUM_CLASSES * ShrinkageTenths) \div 10

Dev == 0 .. (NumDevices - 1)
Clusters == 0 .. (NumClusters - 1)
Samples == 1 .. NumSamples

\* Matrix entries are fractions in [0,1], kept as whole percents.
Percentages == {50, 100}

Min(a, b) == IF a < b THEN a ELSE b

RECURSIVE SumSeq(_)
SumSeq(s) == IF s = <<>> THEN 0 ELSE Head(s) + SumSeq(Tail(s))

\* The values f takes over 0..n-1, as a sequence (a python list comprehension).
ListOf(f, n) == [i \in 1 .. n |-> f[i - 1]]

\* The elements of s at the ascending positions that satisfy keep.
RECURSIVE SelectIdx(_, _, _)
SelectIdx(s, keep, i) ==
  IF i > Len(s) THEN <<>>
  ELSE (IF i \in keep THEN <<s[i]>> ELSE <<>>) \o SelectIdx(s, keep, i + 1)

Range(s) == {s[i] : i \in DOMAIN s}

\* ------------------------------------------------------------ rationals
RECURSIVE GCD(_, _)
GCD(a, b) == IF b = 0 THEN a ELSE GCD(b, a % b)

Abs(a) == IF a < 0 THEN -a ELSE a

\* <<numerator, denominator>> in lowest terms, denominator > 0.
Rat(n, d) ==
  LET g == GCD(Abs(n), Abs(d))
      s == IF d < 0 THEN -1 ELSE 1
  IN <<(s * n) \div g, (s * d) \div g>>

RatAdd(a, b) == Rat(a[1] * b[2] + b[1] * a[2], a[2] * b[2])
RatSub(a, b) == Rat(a[1] * b[2] - b[1] * a[2], a[2] * b[2])
RatMul(a, b) == Rat(a[1] * b[1], a[2] * b[2])
RatDiv(a, b) == Rat(a[1] * b[2], a[2] * b[1])

\* ------------------------------------------------------- resource model
\* Static resource attributes of the devices (positive, fixed for the run).
Compute == [i \in Dev |-> i + 1]
UplinkRate == [i \in Dev |-> i + 1]
DownlinkRate == [i \in Dev |-> 2 * (i + 1)]

\* The ground-truth label of a sample.
LabelOf(s) == (s - 1) % NUM_CLASSES

\* Device.__init__: the dataset is the training shard, no cluster labels yet.
NewDevice(trainset) ==
  [dataset |-> trainset,
   clusters |-> <<>>,
   kd_dataset |-> <<>>,
   num_transferred_samples |-> 0]

\* Device.sample: amount = floor(percentage * len(dataset)).
SampleAmount(percentage, n) == (percentage * n) \div 100

\* Positions of the device's samples that carry the cluster label class_id.
ClassPositions(dev, class_id) ==
  {i \in 1 .. Len(dev.dataset) : i <= Len(dev.clusters) /\ dev.clusters[i] = class_id}

\* The n smallest elements of a set of positions.
RECURSIVE FirstN(_, _)
FirstN(S, n) ==
  IF n <= 0 \/ S = {} THEN {}
  ELSE LET m == CHOOSE a \in S : \A b \in S : a <= b
       IN {m} \cup FirstN(S \ {m}, n - 1)

sample_amount_class_all(dev, amount, class_id) ==
  FirstN(1 .. Len(dev.dataset), amount)

\* Device.sample_amount_class: the first min(amount, len(dataset_class))
\* samples of the class, as positions in the dataset.
sample_amount_class(dev, amount, class_id) ==
  LET dataset_class == ClassPositions(dev, class_id)
  IN FirstN(dataset_class, Min(amount, Cardinality(dataset_class)))

\* Device.label_distribution: bincount of the labels, zero-filled.
label_distribution(dev) ==
  [c \in 0 .. (NUM_CLASSES - 1) |->
     Cardinality({i \in 1 .. Len(dev.dataset) : LabelOf(dev.dataset[i]) = c})]

\* Device.imbalance is the Jensen-Shannon distance of the label histogram
\* from the uniform one; the score is kept as the histogram it is computed
\* from (all zeros for an empty dataset, where the code returns 0).
data_imbalance(dev) == label_distribution(dev)

\* Device.cluster: empty dataset -> no labels; otherwise one predicted label
\* per sample of the dataset.
cluster(dev, predict) ==
  [dev EXCEPT !.clusters =
     IF Len(dev.dataset) = 0 THEN <<>>
     ELSE [i \in 1 .. Len(dev.dataset) |-> predict[dev.dataset[i]]]]

\* Device.remove_data: take up to floor(percentage * len(dataset)) samples of
\* the cluster out of the dataset and its cluster labels; with
\* add_to_kd_dataset they go to the device's distillation pool.  Datasets are
\* immutable values: the device's fields are rebound, not changed in place.
remove_data(dev, cluster_id, percentage_amount, add_to_kd_dataset) ==
  LET amount == SampleAmount(percentage_amount, Len(dev.dataset))
      taken == sample_amount_class(dev, amount, cluster_id)
      kept == (1 .. Len(dev.dataset)) \ taken
      samples == SelectIdx(dev.dataset, taken, 1)
  IN [device |->
        [dataset |-> SelectIdx(dev.dataset, kept, 1),
         clusters |-> SelectIdx(dev.clusters, (1 .. Len(dev.clusters)) \ taken, 1),
         kd_dataset |-> IF add_to_kd_dataset THEN dev.kd_dataset \o samples
                        ELSE dev.kd_dataset,
         num_transferred_samples |-> dev.num_transferred_samples + Len(samples)],
      samples |-> samples,
      labels |-> [i \in 1 .. Len(samples) |-> cluster_id]]

\* Device.add_data: append the samples and their cluster labels.
add_data(dev, samples, labels) ==
  [dev EXCEPT !.dataset = @ \o samples,
              !.clusters = @ \o labels,
              !.num_transferred_samples = @ + Len(samples)]

\* ------------------------------------------------- data shuffling engine
\* What one send_data call did: its arguments, the sender's dataset and
\* cluster labels when it was called, and the samples it took out.
Transfer(ds, sender_idx, receiver_idx, cluster_id, percentage_amount, samples) ==
  [sender |-> sender_idx, receiver |-> receiver_idx, cluster |-> cluster_id,
   percentage |-> percentage_amount, samples |-> samples,
   held |-> ds[sender_idx].dataset, held_clusters |-> ds[sender_idx].clusters]

NoTransfer ==
  [sender |-> -1, receiver |-> -1, cluster |-> -1, percentage |-> 0,
   samples |-> <<>>, held |-> <<>>, held_clusters |-> <<>>]

send_data_always_receiver(ds, sender_idx, receiver_idx, cluster_id, percentage_amount) ==
  IF sender_idx \notin Dev \/ receiver_idx \notin Dev
  THEN [devices |-> ds, raised |-> TRUE, transfer |-> NoTransfer]
  ELSE LET r == remove_data(ds[sender_idx], cluster_id, percentage_amount, FALSE)
           t == Transfer(ds, sender_idx, receiver_idx, cluster_id, percentage_amount,
                         r.samples)
           d1 == [ds EXCEPT ![sender_idx] = r.device]
       IN [devices |-> [d1 EXCEPT ![receiver_idx] = add_data(@, r.samples, r.labels)],
           raised |-> FALSE, transfer |-> t]

send_data_drop(ds, sender_idx, receiver_idx, cluster_id, percentage_amount) ==
  IF sender_idx \notin Dev \/ receiver_idx \notin Dev
  THEN [devices |-> ds, raised |-> TRUE, transfer |-> NoTransfer]
  ELSE LET r == remove_data(ds[sender_idx], cluster_id, percentage_amount,
                            sender_idx = receiver_idx)
           t == Transfer(ds, sender_idx, receiver_idx, cluster_id, percentage_amount,
                         r.samples)
       IN [devices |-> [ds EXCEPT ![sender_idx] = r.device],
           raised |-> FALSE, transfer |-> t]

\* User.send_data: self.devices[sender_idx] / self.devices[receiver_idx]
\* raise IndexError for an index outside the group, before anything of this
\* call is changed.  sender == receiver routes the removed samples into the
\* distillation pool, otherwise the receiver adds them to its dataset.
send_data(ds, sender_idx, receiver_idx, cluster_id, percentage_amount) ==
  IF sender_idx \notin Dev \/ receiver_idx \notin Dev
  THEN [devices |-> ds, raised |-> TRUE, transfer |-> NoTransfer]
  ELSE LET r == remove_data(ds[sender_idx], cluster_id, percentage_amount,
                            sender_idx = receiver_idx)
           t == Transfer(ds, sender_idx, receiver_idx, cluster_id, percentage_amount,
                         r.samples)
           d1 == [ds EXCEPT ![sender_idx] = r.device]
       IN IF sender_idx = receiver_idx
          THEN [devices |-> d1, raised |-> FALSE, transfer |-> t]
          ELSE [devices |-> [d1 EXCEPT ![receiver_idx] = add_data(@, r.samples, r.labels)],
                raised |-> FALSE, transfer |-> t]

\* The send_data calls one matrix makes: for cluster_idx in
\* range(len(transition_matrix)), for other_device_idx in
\* range(len(transition_matrix[0])).
MatrixCalls(device_idx, transition_matrix) ==
  LET rows == Len(transition_matrix)
      cols == IF rows = 0 THEN 0 ELSE Len(transition_matrix[1])
  IN [n \in 1 .. (rows * cols) |->
        LET cluster_idx == (n - 1) \div cols
            other_device_idx == (n - 1) % cols
        IN [sender_idx |-> device_idx,
            receiver_idx |-> other_device_idx,
            cluster |-> cluster_idx,
            percentage_amount |-> transition_matrix[cluster_idx + 1][other_device_idx + 1]]]

\* The calls of User.shuffle_data, in the order of its three loops.
RECURSIVE CallsFrom(_, _)
CallsFrom(transition_matrices, m) ==
  IF m > Len(transition_matrices) THEN <<>>
  ELSE MatrixCalls(m - 1, transition_matrices[m]) \o CallsFrom(transition_matrices, m + 1)

Calls(transition_matrices) == CallsFrom(transition_matrices, 1)

SendCall(ds, c) ==
  send_data(ds, c.sender_idx, c.receiver_idx, c.cluster, c.percentage_amount)

\* User.shuffle_data run to its end, or to the call that raises.
RECURSIVE ApplyCalls(_, _, _)
ApplyCalls(ds, calls, n) ==
  IF n > Len(calls) THEN [devices |-> ds, raised |-> FALSE]
  ELSE LET r == SendCall(ds, calls[n])
       IN IF r.raised THEN [devices |-> r.devices, raised |-> TRUE]
          ELSE ApplyCalls(r.devices, calls, n + 1)

shuffle_data(ds, transition_matrices) == ApplyCalls(ds, Calls(transition_matrices), 1)

\* ------------------------------------------------ latency and capability
\* The transition matrix a device holds for itself: User.__init__ calls
\* initialize_transition_matrix(len(devices)); nothing in User changes it.
DeviceTransitionMatrix(i) ==
  [k \in 1 .. NumClusters |-> [j \in 1 .. NumDevices |-> 0]]

\* Communication time of device i: every off-diagonal entry, sent and
\* received, weighted by 1/uplink + 1/downlink of the two ends.
RECURSIVE t_communication(_, _)
t_communication(i, n) ==
  IF n > NumClusters * NumDevices THEN <<0, 1>>
  ELSE LET k == ((n - 1) \div NumDevices) + 1
           j == (n - 1) % NumDevices
           sent == RatMul(<<DeviceTransitionMatrix(i)[k][j + 1], 100>>,
                          RatAdd(<<1, UplinkRate[i]>>, <<1, DownlinkRate[j]>>))
           received == RatMul(<<DeviceTransitionMatrix(j)[k][i + 1], 100>>,
                              RatAdd(<<1, DownlinkRate[i]>>, <<1, UplinkRate[j]>>))
           rest == t_communication(i, n + 1)
       IN IF i # j THEN RatAdd(RatAdd(sent, received), rest) ELSE rest

\* The computation term: 3 * epochs * len(device.dataset) * compute.
t_computation(dev, i, epochs) == 3 * epochs * Len(dev.dataset) * Compute[i]

\* Device.latency: communication time + computation time.
latency(ds, i, epochs) ==
  RatAdd(t_communication(i, 1), <<t_computation(ds[i], i, epochs), 1>>)

\* User.latency_devices / User.data_imbalance_devices: the stored vectors are
\* overwritten element by element and returned.
latency_devices(ds, epochs) == [i \in Dev |-> latency(ds, i, epochs)]
data_imbalance_devices(ds) == [i \in Dev |-> data_imbalance(ds[i])]

compute_staleness_factor_unweighted(ds) ==
  LET dataset_size == SumSeq(ListOf([i \in Dev |-> Len(ds[i].dataset)], NumDevices))
      num_transferred_samples ==
        SumSeq(ListOf([i \in Dev |-> ds[i].num_transferred_samples], NumDevices))
  IN IF dataset_size + num_transferred_samples = 0 THEN <<0, 0>>
     ELSE Rat(dataset_size, dataset_size + num_transferred_samples)

\* User.compute_staleness_factor: 3D / (3D + T); <<0, 0>> stands for the
\* ZeroDivisionError of D = 0 and T = 0.
compute_staleness_factor(ds) ==
  LET dataset_size == SumSeq(ListOf([i \in Dev |-> Len(ds[i].dataset)], NumDevices))
      num_transferred_samples ==
        SumSeq(ListOf([i \in Dev |-> ds[i].num_transferred_samples], NumDevices))
  IN IF 3 * dataset_size + num_transferred_samples = 0 THEN <<0, 0>>
     ELSE Rat(3 * dataset_size, 3 * dataset_size + num_transferred_samples)

\* The current averages of User.update_average_capability.
AveragePower == Rat(SumSeq(ListOf(Compute, NumDevices)), NumDevices)
AverageBandwidth ==
  Rat(SumSeq(ListOf([i \in Dev |-> UplinkRate[i] + DownlinkRate[i]], NumDevices)),
      2 * NumDevices)

\* Equation 8: staleness * (power / previous power)
\*           + (1 - staleness) * (bandwidth / previous bandwidth).
DiffCapability(staleness, previous_power, previous_bandwidth) ==
  RatAdd(RatMul(staleness, RatDiv(AveragePower, previous_power)),
         RatMul(RatSub(<<1, 1>>, staleness), RatDiv(AverageBandwidth, previous_bandwidth)))

\* User.create_kd_dataset: the devices' pools, concatenated in device order.
RECURSIVE create_kd_dataset(_, _)
create_kd_dataset(ds, i) ==
  IF i >= NumDevices THEN <<>> ELSE ds[i].kd_dataset \o create_kd_dataset(ds, i + 1)

\* --------------------------------------------------- optimizer constraints
\* 1.0 and the epsilon 10 ** -2 of non_zero_self_column, in whole percents.
One == 100
Epsilon == 1

\* numpy's flatten and reshape of N x K x N matrices, row-major.
Flatten(m) ==
  LET b == Len(m[1])
      c == Len(m[1][1])
  IN [n \in 1 .. (Len(m) * b * c) |->
        m[((n - 1) \div (b * c)) + 1][(((n - 1) \div c) % b) + 1][((n - 1) % c) + 1]]

Reshape(v, a, b, c) ==
  [i \in 1 .. a |-> [k \in 1 .. b |-> [j \in 1 .. c |->
     v[(i - 1) * b * c + (k - 1) * c + j]]]]

\* list.extend / np.append over a list of lists.
RECURSIVE Concat(_)
Concat(ss) == IF ss = <<>> THEN <<>> ELSE Head(ss) \o Concat(Tail(ss))

row_less_than_one_off_diagonal(variables, num_devices, num_clusters) ==
  LET tm == Reshape(variables, num_devices, num_clusters, num_devices)
  IN Concat([i \in 1 .. num_devices |->
               [k \in 1 .. num_clusters |-> One - (SumSeq(tm[i][k]) - tm[i][k][i])]])

\* row_less_than_one: for each matrix, 1 - np.sum(matrix, axis=1), the
\* matrices' vectors one after the other.
row_less_than_one(variables, num_devices, num_clusters) ==
  LET tm == Reshape(variables, num_devices, num_clusters, num_devices)
  IN Concat([i \in 1 .. num_devices |->
               [k \in 1 .. num_clusters |-> One - SumSeq(tm[i][k])]])

non_zero_self_column_first_column(variables, num_devices, num_clusters) ==
  LET tm == Reshape(variables, num_devices, num_clusters, num_devices)
      column == Concat([i \in 1 .. num_devices |->
                          [k \in 1 .. num_clusters |-> tm[i][k][1]]])
  IN [n \in 1 .. Len(column) |-> column[n] - Epsilon]

\* non_zero_self_column: [row[i] for row in matrix] of every matrix i, one
\* after the other, minus 10 ** -2.
non_zero_self_column(variables, num_devices, num_clusters) ==
  LET tm == Reshape(variables, num_devices, num_clusters, num_devices)
      column == Concat([i \in 1 .. num_devices |->
                          [k \in 1 .. num_clusters |-> tm[i][k][i]]])
  IN [n \in 1 .. Len(column) |-> column[n] - Epsilon]

\* ------------------------------------------------------------ candidates
ZeroMatrices ==
  [i \in 1 .. NumDevices |-> [k \in 1 .. NumClusters |-> [j \in 1 .. NumDevices |-> 0]]]

\* Every device sends the fraction p of its cluster-k samples to the device
\* d places further round the group (d = 0: to itself, i.e. to the pool).
Rotation(k, d, p) ==
  [a \in 1 .. NumDevices |-> [c \in 1 .. NumClusters |-> [b \in 1 .. NumDevices |->
     IF c = k + 1 /\ b - 1 = ((a - 1) + d) % NumDevices THEN p ELSE 0]]]

\* The iterates the solver may evaluate or return: entries within [0,1].
Candidates ==
  {ZeroMatrices} \cup {Rotation(k, d, 100) : k \in Clusters, d \in Dev}

\* The fitted k-means estimators: a cluster id for every sample.
Estimators ==
  {[s \in Samples |-> s % NumClusters], [s \in Samples |-> 0]}

\* The training shards: consecutive slices of the corpus, one per device.
Shards ==
  {o \in [Samples -> Dev] : \A s, t \in Samples : s <= t => o[s] <= o[t]}

ShardOf(o, i) == SelectIdx([s \in Samples |-> s], {s \in Samples : o[s] = i}, 1)

\* The initial draws of random.random() in User.__init__.
RandomDraws == {<<1, 2>>}

\* ------------------------------------------------------------------ state
VARIABLES
  devices,              \* User.devices: per device dataset, clusters, kd_dataset, counter
  transition_matrices,  \* User.transition_matrices
  system_latencies,     \* User.system_latencies
  data_imbalances,      \* User.data_imbalances
  kd_dataset,           \* User.kd_dataset
  staleness_factor,     \* User.staleness_factor
  diff_capability,      \* User.diff_capability
  average_power,        \* User.average_power
  average_bandwidth,    \* User.average_bandwidth
  round,                \* the federated epoch of main's loop, from 1
  step,                 \* position in the round's sequence of calls
  eval_pc,              \* position inside objective_function
  evals,                \* objective evaluations made by the running minimize()
  x,                    \* the matrices being evaluated or shuffled
  current_datasets,     \* objective_function's snapshot of device.dataset
  current_kd_datasets,  \* objective_function's snapshot of device.kd_dataset
  cursor,               \* index of the next send_data call of a stepwise shuffle
  at_call,              \* history: the state when objective_function was entered
  at_shuffle,           \* history: the devices when shuffle_data was entered
  last_transfer,        \* history: what the last send_data call moved
  steps,                \* history: the calls completed in this round, in order
  result,               \* optimize_transmission_matrices: what minimize() returned
  row_sums,             \* the value row_less_than_one returned
  self_column,          \* the value non_zero_self_column returned
  evaluations,          \* objective evaluations in flight: position and locals of each
  interleaved,          \* history: a snapshot was taken between another's shuffle and restore
  server,               \* Server: init, wall_clock_training_times and position in train()
  adaptive_scaling_factor  \* User.adaptive_scaling_factor of every user of the server

vars ==
  <<devices, transition_matrices, system_latencies, data_imbalances, kd_dataset,
    staleness_factor, diff_capability, average_power, average_bandwidth, round,
    step, eval_pc, evals, x, current_datasets, current_kd_datasets, cursor,
    at_call, at_shuffle, last_transfer, steps, result, row_sums, self_column,
    evaluations, interleaved, server, adaptive_scaling_factor>>

\* The state of the constraint functions, of concurrent evaluations and of the
\* server, which the calls of one user's round leave alone.
otherVars ==
  <<row_sums, self_column, evaluations, interleaved, server, adaptive_scaling_factor>>

userVars ==
  <<transition_matrices, system_latencies, data_imbalances, kd_dataset,
    staleness_factor, diff_capability, average_power, average_bandwidth>>

Snapshot == [devices |-> devices, system_latencies |-> system_latencies,
             data_imbalances |-> data_imbalances]

\* The users of the server (main.py: --users).
Users == 0 .. (TotalUsers - 1)

\* No result of minimize() is at hand outside optimize_transmission_matrices.
NoResult == [x |-> <<>>, success |-> FALSE]

\* The objective evaluations that may be in flight on one group.
Evaluations == {1, 2}
NoEvaluation ==
  [pc |-> "idle", transfer_matrices |-> <<>>,
   current_datasets |-> <<>>, current_kd_datasets |-> <<>>]

\* Server.__init__: init = False, wall_clock_training_times = [0.] * len(users).
NewServer ==
  [init |-> FALSE,
   wall_clock_training_times |-> [u \in Users |-> 0],
   pc |-> "idle",
   epoch |-> 0,
   log |-> <<>>]

\* What the calls of one user's round never touch, as constructed:
\* User.adaptive_scaling_factor = 1.0.
OtherInit ==
  /\ result = NoResult
  /\ row_sums = <<>>
  /\ self_column = <<>>
  /\ evaluations = [e \in Evaluations |-> NoEvaluation]
  /\ interleaved = FALSE
  /\ server = NewServer
  /\ adaptive_scaling_factor = [u \in Users |-> <<1, 1>>]

FitSteps_shuffle_first ==
  <<"reduce_dimensionality", "shuffle_data", "optimize_transmission_matrices",
    "create_kd_dataset", "update_average_capability", "latency_devices",
    "data_imbalance_devices", "train_devices", "aggregate_updates">>

\* The calls of one round for one user group, in the order of User.fit (and of
\* main's loop body).
FitSteps ==
  <<"reduce_dimensionality", "optimize_transmission_matrices", "shuffle_data",
    "create_kd_dataset", "update_average_capability", "latency_devices",
    "data_imbalance_devices", "train_devices", "aggregate_updates">>

AtStep(name) == step <= Len(FitSteps) /\ FitSteps[step] = name /\ round <= ServerEpochs

\* A call of the round returns: the next call is due; after the last one fit
\* returns and main's loop goes on to the next epoch.
Completed(name) ==
  /\ step' = IF step = Len(FitSteps) THEN 1 ELSE step + 1
  /\ round' = IF step = Len(FitSteps) THEN round + 1 ELSE round
  /\ steps' = IF step = 1 THEN <<name>> ELSE Append(steps, name)

\* User.__init__: the fields of the user itself.
UserFields(draw) ==
  /\ transition_matrices = ZeroMatrices
  /\ system_latencies = [i \in Dev |-> <<0, 1>>]
  /\ data_imbalances = [i \in Dev |-> [c \in 0 .. (NUM_CLASSES - 1) |-> 0]]
  /\ kd_dataset = <<>>
  /\ staleness_factor = <<0, 1>>
  /\ diff_capability = RatAdd(<<1, 1>>, RatMul(<<STD_CORRECTION, 1>>, draw))
  /\ average_power = RatAdd(<<1, 1>>, RatMul(<<STD_CORRECTION, 1>>, draw))
  /\ average_bandwidth = RatAdd(<<1, 1>>, RatMul(<<STD_CORRECTION, 1>>, draw))

\* User.__init__ over freshly created devices.
UserInit(shard, draw) ==
  /\ devices = [i \in Dev |-> NewDevice(ShardOf(shard, i))]
  /\ UserFields(draw)

Init ==
  /\ \E shard \in Shards, draw \in RandomDraws : UserInit(shard, draw)
  /\ round = 1
  /\ step = 1
  /\ eval_pc = "idle"
  /\ evals = 0
  /\ x = ZeroMatrices
  /\ current_datasets = [i \in Dev |-> <<>>]
  /\ current_kd_datasets = [i \in Dev |-> <<>>]
  /\ cursor = 0
  /\ at_call = Snapshot
  /\ at_shuffle = devices
  /\ last_transfer = NoTransfer
  /\ steps = <<>>
  /\ OtherInit

\* User.reduce_dimensionality: every device labels its samples with the
\* round's fitted estimator.
ReduceDimensionality ==
  /\ AtStep("reduce_dimensionality")
  /\ \E predict \in Estimators : devices' = [i \in Dev |-> cluster(devices[i], predict)]
  /\ Completed("reduce_dimensionality")
  /\ UNCHANGED <<otherVars, result, userVars, eval_pc, evals, x, current_datasets,
                 current_kd_datasets, cursor, at_call, at_shuffle, last_transfer>>

\* objective_function, first part: reshape x, store each device's dataset and
\* kd_dataset, reset each device's num_transferred_samples.  The solver's
\* first evaluation is at the warm start x0 = self.transition_matrices.
EvalBegin ==
  /\ AtStep("optimize_transmission_matrices")
  /\ eval_pc = "idle"
  /\ evals < MaxEvals
  /\ \E cand \in Candidates :
       /\ evals = 0 => cand = transition_matrices
       /\ x' = cand
  /\ current_datasets' = [i \in Dev |-> devices[i].dataset]
  /\ current_kd_datasets' = [i \in Dev |-> devices[i].kd_dataset]
  /\ devices' = [i \in Dev |-> [devices[i] EXCEPT !.num_transferred_samples = 0]]
  /\ at_call' = Snapshot
  /\ eval_pc' = "shuffle"
  /\ UNCHANGED <<otherVars, result, userVars, round, step, evals, cursor, at_shuffle, last_transfer, steps>>

\* objective_function: self.shuffle_data(transfer_matrices).
EvalShuffle ==
  /\ eval_pc = "shuffle"
  /\ at_shuffle' = devices
  /\ devices' = shuffle_data(devices, x).devices
  /\ eval_pc' = "measure"
  /\ UNCHANGED <<otherVars, result, userVars, round, step, evals, x, current_datasets,
                 current_kd_datasets, cursor, at_call, last_transfer, steps>>

\* objective_function: latencies and data imbalances of the shuffled state.
EvalMeasure ==
  /\ eval_pc = "measure"
  /\ system_latencies' = latency_devices(devices, 1)
  /\ data_imbalances' = data_imbalance_devices(devices)
  /\ eval_pc' = "restore"
  /\ UNCHANGED <<otherVars, result, devices, transition_matrices, kd_dataset, staleness_factor,
                 diff_capability, average_power, average_bandwidth, round, step,
                 evals, x, current_datasets, current_kd_datasets, cursor, at_call,
                 at_shuffle, last_transfer, steps>>

RestoreDevice_kd_only(dev, dataset, kd) ==
  [dev EXCEPT !.kd_dataset = kd]

\* The restore loop: device.dataset and device.kd_dataset are put back.
RestoreDevice(dev, dataset, kd) ==
  [dev EXCEPT !.dataset = dataset, !.kd_dataset = kd]

\* objective_function, last part: restore and return the objective value.
EvalRestore ==
  /\ eval_pc = "restore"
  /\ devices' = [i \in Dev |->
                   RestoreDevice(devices[i], current_datasets[i], current_kd_datasets[i])]
  /\ eval_pc' = "idle"
  /\ evals' = evals + 1
  /\ x' = ZeroMatrices
  /\ UNCHANGED <<otherVars, result, userVars, round, step, current_datasets, current_kd_datasets,
                 cursor, at_call, at_shuffle, last_transfer, steps>>

\* minimize() returns its OptimizeResult: the final iterate, flat like x0, and
\* whether the solver reports convergence.
MinimizeReturns ==
  /\ AtStep("optimize_transmission_matrices")
  /\ eval_pc = "idle"
  /\ evals >= 1
  /\ \E final \in Candidates, success \in BOOLEAN :
       result' = [x |-> Flatten(final), success |-> success]
  /\ eval_pc' = "minimized"
  /\ UNCHANGED <<otherVars, devices, userVars, round, step, evals, x, current_datasets,
                 current_kd_datasets, cursor, at_call, at_shuffle, last_transfer, steps>>

updated_transmission_matrices_if_success(res, num_devices, num_clusters) ==
  IF res.success THEN Reshape(res.x, num_devices, num_clusters, num_devices)
  ELSE transition_matrices

\* result.x.reshape((num_devices, num_clusters, num_devices)); result.success
\* is not looked at.
updated_transmission_matrices(res, num_devices, num_clusters) ==
  Reshape(res.x, num_devices, num_clusters, num_devices)

\* The end of optimize_transmission_matrices: the reshaped final iterate
\* replaces self.transition_matrices.
OptimizeEnd ==
  /\ AtStep("optimize_transmission_matrices")
  /\ eval_pc = "minimized"
  /\ transition_matrices' = updated_transmission_matrices(result, NumDevices, NumClusters)
  /\ result' = NoResult
  /\ eval_pc' = "idle"
  /\ evals' = 0
  /\ Completed("optimize_transmission_matrices")
  /\ UNCHANGED <<otherVars, devices, system_latencies, data_imbalances, kd_dataset,
                 staleness_factor, diff_capability, average_power, average_bandwidth,
                 x, current_datasets, current_kd_datasets, cursor,
                 at_call, at_shuffle, last_transfer>>

\* User.fit: self.shuffle_data(self.transition_matrices).
RealShuffle ==
  /\ AtStep("shuffle_data")
  /\ eval_pc = "idle"
  /\ at_shuffle' = devices
  /\ devices' = shuffle_data(devices, transition_matrices).devices
  /\ Completed("shuffle_data")
  /\ UNCHANGED <<otherVars, result, userVars, eval_pc, evals, x, current_datasets,
                 current_kd_datasets, cursor, at_call, last_transfer>>

CreateKdDataset ==
  /\ AtStep("create_kd_dataset")
  /\ kd_dataset' = create_kd_dataset(devices, 0)
  /\ Completed("create_kd_dataset")
  /\ UNCHANGED <<otherVars, result, devices, transition_matrices, system_latencies, data_imbalances,
                 staleness_factor, diff_capability, average_power, average_bandwidth,
                 eval_pc, evals, x, current_datasets, current_kd_datasets,
                 cursor, at_call, at_shuffle, last_transfer>>

\* User.update_average_capability.
UpdateAverageCapability ==
  /\ AtStep("update_average_capability")
  /\ diff_capability' = DiffCapability(staleness_factor, average_power, average_bandwidth)
  /\ average_power' = AveragePower
  /\ average_bandwidth' = AverageBandwidth
  /\ Completed("update_average_capability")
  /\ UNCHANGED <<otherVars, result, devices, transition_matrices, system_latencies, data_imbalances,
                 kd_dataset, staleness_factor, eval_pc, evals, x,
                 current_datasets, current_kd_datasets, cursor, at_call, at_shuffle,
                 last_transfer>>

LatencyDevices ==
  /\ AtStep("latency_devices")
  /\ system_latencies' = latency_devices(devices, OnDeviceEpochs)
  /\ Completed("latency_devices")
  /\ UNCHANGED <<otherVars, result, devices, transition_matrices, data_imbalances, kd_dataset,
                 staleness_factor, diff_capability, average_power, average_bandwidth,
                 eval_pc, evals, x, current_datasets, current_kd_datasets,
                 cursor, at_call, at_shuffle, last_transfer>>

DataImbalanceDevices ==
  /\ AtStep("data_imbalance_devices")
  /\ data_imbalances' = data_imbalance_devices(devices)
  /\ Completed("data_imbalance_devices")
  /\ UNCHANGED <<otherVars, result, devices, transition_matrices, system_latencies, kd_dataset,
                 staleness_factor, diff_capability, average_power, average_bandwidth,
                 eval_pc, evals, x, current_datasets, current_kd_datasets,
                 cursor, at_call, at_shuffle, last_transfer>>

\* User.train_devices: the devices train on their datasets (model weights are
\* not part of this state).
TrainDevices ==
  /\ AtStep("train_devices")
  /\ Completed("train_devices")
  /\ UNCHANGED <<otherVars, result, devices, userVars, eval_pc, evals, x, current_datasets,
                 current_kd_datasets, cursor, at_call, at_shuffle, last_transfer>>

\* User.aggregate_updates: distillation into the user model.
AggregateUpdates ==
  /\ AtStep("aggregate_updates")
  /\ Completed("aggregate_updates")
  /\ UNCHANGED <<otherVars, result, devices, userVars, eval_pc, evals, x, current_datasets,
                 current_kd_datasets, cursor, at_call, at_shuffle, last_transfer>>

Next ==
  \/ ReduceDimensionality
  \/ EvalBegin
  \/ EvalShuffle
  \/ EvalMeasure
  \/ EvalRestore
  \/ MinimizeReturns
  \/ OptimizeEnd
  \/ RealShuffle
  \/ CreateKdDataset
  \/ UpdateAverageCapability
  \/ LatencyDevices
  \/ DataImbalanceDevices
  \/ TrainDevices
  \/ AggregateUpdates

Spec == Init /\ [][Next]_vars

\* ---------------------------------------------- a direct shuffle_data call
\* A caller builds the group, has it cluster its data and calls the public
\* User.shuffle_data(transition_matrices) with matrices of its own; the call
\* is followed one send_data at a time.

WellShaped(m) ==
  /\ Len(m) = NumDevices
  /\ \A a \in 1 .. Len(m) :
       /\ Len(m[a]) = NumClusters
       /\ \A c \in 1 .. Len(m[a]) : Len(m[a][c]) = NumDevices

\* All zeros but the entry (sender i, cluster k, receiver j), python indices.
SingleEntry(i, k, j, p) ==
  [a \in 1 .. NumDevices |-> [c \in 1 .. NumClusters |-> [b \in 1 .. NumDevices |->
     IF a = i + 1 /\ c = k + 1 /\ b = j + 1 THEN p ELSE 0]]]

\* Entrywise sum of two sets of matrices of the same shape.
MatricesSum(m, n) ==
  [a \in 1 .. Len(m) |-> [c \in 1 .. Len(m[a]) |-> [b \in 1 .. Len(m[a][c]) |->
     m[a][c][b] + n[a][c][b]]]]

\* Shapes that do not fit the group: one matrix too many, one too few, a
\* column too many, a column too few.
ExtraMatrix(m) == Append(m, m[1])
FewerMatrices(m) == SubSeq(m, 1, Len(m) - 1)
ExtraColumn(m) == [a \in 1 .. Len(m) |-> [c \in 1 .. Len(m[a]) |-> Append(m[a][c], 0)]]
FewerColumns(m) ==
  [a \in 1 .. Len(m) |-> [c \in 1 .. Len(m[a]) |-> SubSeq(m[a][c], 1, Len(m[a][c]) - 1)]]

WellShapedArguments ==
  {ZeroMatrices}
    \cup {Rotation(k, d, p) : k \in Clusters, d \in Dev, p \in Percentages}
    \cup {MatricesSum(Rotation(k, 0, 50), Rotation(k, 1, 100)) : k \in Clusters}
    \cup {SingleEntry(i, k, j, 100) : i \in Dev, k \in Clusters, j \in Dev}

IllShapedArguments ==
  UNION {{ExtraMatrix(m), FewerMatrices(m), ExtraColumn(m), FewerColumns(m)} :
           m \in {Rotation(k, d, 100) : k \in Clusters, d \in Dev}}

Arguments == WellShapedArguments \cup IllShapedArguments

InitShuffle ==
  /\ \E shard \in Shards, draw \in RandomDraws : UserInit(shard, draw)
  /\ round = 1
  /\ step = 0
  /\ eval_pc = "created"
  /\ evals = 0
  /\ x = ZeroMatrices
  /\ current_datasets = [i \in Dev |-> <<>>]
  /\ current_kd_datasets = [i \in Dev |-> <<>>]
  /\ cursor = 0
  /\ at_call = Snapshot
  /\ at_shuffle = devices
  /\ last_transfer = NoTransfer
  /\ steps = <<>>
  /\ OtherInit

CallReduce ==
  /\ eval_pc = "created"
  /\ \E predict \in Estimators : devices' = [i \in Dev |-> cluster(devices[i], predict)]
  /\ eval_pc' = "reduced"
  /\ UNCHANGED <<otherVars, result, userVars, round, step, evals, x, current_datasets,
                 current_kd_datasets, cursor, at_call, at_shuffle, last_transfer, steps>>

CallShuffle ==
  /\ eval_pc = "reduced"
  /\ \E m \in Arguments : x' = m
  /\ at_shuffle' = devices
  /\ cursor' = 1
  /\ eval_pc' = "sending"
  /\ UNCHANGED <<otherVars, result, devices, userVars, round, step, evals, current_datasets,
                 current_kd_datasets, at_call, last_transfer, steps>>

\* One iteration of shuffle_data's innermost loop: a send_data call that
\* returns.
SendData ==
  /\ eval_pc = "sending"
  /\ cursor <= Len(Calls(x))
  /\ LET r == SendCall(devices, Calls(x)[cursor])
     IN /\ ~r.raised
        /\ devices' = r.devices
        /\ last_transfer' = r.transfer
  /\ cursor' = cursor + 1
  /\ UNCHANGED <<otherVars, result, userVars, round, step, eval_pc, evals, x, current_datasets,
                 current_kd_datasets, at_call, at_shuffle, steps>>

\* ... or a send_data call that raises IndexError, which ends shuffle_data.
SendRaises ==
  /\ eval_pc = "sending"
  /\ cursor <= Len(Calls(x))
  /\ SendCall(devices, Calls(x)[cursor]).raised
  /\ eval_pc' = "raised"
  /\ UNCHANGED <<otherVars, result, devices, userVars, round, step, evals, x, current_datasets,
                 current_kd_datasets, cursor, at_call, at_shuffle, last_transfer, steps>>

\* The loops are exhausted: shuffle_data returns.
ShuffleReturns ==
  /\ eval_pc = "sending"
  /\ cursor > Len(Calls(x))
  /\ eval_pc' = "returned"
  /\ UNCHANGED <<otherVars, result, devices, userVars, round, step, evals, x, current_datasets,
                 current_kd_datasets, cursor, at_call, at_shuffle, last_transfer, steps>>

NextShuffle ==
  \/ CallReduce
  \/ CallShuffle
  \/ SendData
  \/ SendRaises
  \/ ShuffleReturns

SpecShuffle == InitShuffle /\ [][NextShuffle]_vars

\* ------------------------------------------------------------- properties
\* An objective evaluation has returned to the solver (not yet to the caller
\* of minimize).
AfterEvaluation == eval_pc = "idle" /\ evals >= 1

\* The last completed call of the round.
LastStep == IF steps = <<>> THEN "none" ELSE steps[Len(steps)]

\* Every sample a group holds: the datasets and pools, device by device.
RECURSIVE AllHeld(_, _)
AllHeld(ds, i) ==
  IF i >= NumDevices THEN <<>>
  ELSE ds[i].dataset \o ds[i].kd_dataset \o AllHeld(ds, i + 1)

\* sum(len(device.dataset)) + len(kd pool).
TotalHeld(ds) ==
  SumSeq(ListOf([i \in Dev |-> Len(ds[i].dataset)], NumDevices))
    + Len(create_kd_dataset(ds, 0))

NoDuplicates(s) == \A i, j \in 1 .. Len(s) : s[i] = s[j] => i = j

\* C1: after a call of objective_function every device's dataset,
\* distillation pool and cluster-label array are what they were immediately
\* before the call.
C1_RollbackLossless ==
  AfterEvaluation =>
    \A i \in Dev :
      /\ devices[i].dataset = at_call.devices[i].dataset
      /\ devices[i].kd_dataset = at_call.devices[i].kd_dataset
      /\ devices[i].clusters = at_call.devices[i].clusters

\* C2: after a call of objective_function each device's
\* num_transferred_samples and the user's system_latencies and
\* data_imbalances hold the values they had before the call.
C2_EvaluationLeaksNothing ==
  AfterEvaluation =>
    /\ \A i \in Dev : devices[i].num_transferred_samples
                        = at_call.devices[i].num_transferred_samples
    /\ system_latencies = at_call.system_latencies
    /\ data_imbalances = at_call.data_imbalances

\* C3: when a shuffle_data call has returned, the sum of the dataset sizes
\* plus the size of the distillation pool is what it was when the call
\* started, and the samples held are the same samples, none lost and none
\* duplicated.
C3_Conservation ==
  eval_pc = "returned" =>
    /\ TotalHeld(devices) = TotalHeld(at_shuffle)
    /\ Range(AllHeld(devices, 0)) = Range(AllHeld(at_shuffle, 0))
    /\ NoDuplicates(AllHeld(devices, 0))

C3_Witness ==
  /\ eval_pc = "returned"
  /\ WellShaped(x)
  /\ \E i \in Dev : Len(devices[i].kd_dataset) > 0
  /\ \E i \in Dev : Len(devices[i].dataset) > Len(at_shuffle[i].dataset)

\* C4: for every device len(dataset) = len(cluster labels), in every state
\* between the calls of the round (the shuffles are single steps here).
C4_LabelsParallelToDataset ==
  \A i \in Dev : Len(devices[i].dataset) = Len(devices[i].clusters)

\* The positions of the sender's samples that carried the cluster of the
\* transfer, and the number of samples the call asked for.
Matching(t) ==
  {i \in 1 .. Len(t.held) : i <= Len(t.held_clusters) /\ t.held_clusters[i] = t.cluster}
Requested(t) == (t.percentage * Len(t.held)) \div 100

\* C5: a transfer moves exactly min(requested, available) samples, each one a
\* sample the sender held under the requested cluster, and a shuffle with
\* matrices of the group's shape never raises.
C5_BestEffortTransfer ==
  /\ last_transfer.sender # -1 =>
       /\ Len(last_transfer.samples)
            = Min(Requested(last_transfer), Cardinality(Matching(last_transfer)))
       /\ \A n \in 1 .. Len(last_transfer.samples) :
            \E i \in Matching(last_transfer) :
              last_transfer.held[i] = last_transfer.samples[n]
  /\ WellShaped(x) => eval_pc # "raised"

C5_Witness ==
  /\ eval_pc = "sending"
  /\ cursor <= Len(Calls(x))
  /\ last_transfer.sender # -1
  /\ Cardinality(Matching(last_transfer)) > 0
  /\ Requested(last_transfer) > Cardinality(Matching(last_transfer))
  /\ Len(last_transfer.samples) = Cardinality(Matching(last_transfer))

\* C6: the samples of a sender == receiver entry are in the distillation pool
\* and in no device's dataset; the samples of a sender # receiver entry are
\* in the receiver's dataset and not in the pool.
C6_SelfTransferGoesToPool ==
  \A n \in 1 .. Len(last_transfer.samples) :
    LET sample == last_transfer.samples[n]
    IN IF last_transfer.sender = last_transfer.receiver
       THEN /\ sample \in Range(create_kd_dataset(devices, 0))
            /\ \A i \in Dev : sample \notin Range(devices[i].dataset)
       ELSE /\ sample \in Range(devices[last_transfer.receiver].dataset)
            /\ sample \notin Range(create_kd_dataset(devices, 0))

\* A cross-device entry has just moved a sample while the pool already holds
\* one from a self entry of the same call.
C6_Witness ==
  /\ eval_pc = "sending"
  /\ last_transfer.sender # last_transfer.receiver
  /\ Len(last_transfer.samples) > 0
  /\ Len(create_kd_dataset(devices, 0)) > 0

ZeroCounters(ds) == [i \in Dev |-> [ds[i] EXCEPT !.num_transferred_samples = 0]]

\* C7: when the round's real shuffle has finished, each device's
\* num_transferred_samples is what that shuffle alone sent from and
\* delivered to the device.
C7_CounterIsPerRound ==
  LastStep = "shuffle_data" =>
    \A i \in Dev :
      devices[i].num_transferred_samples
        = shuffle_data(ZeroCounters(at_shuffle), transition_matrices)
            .devices[i].num_transferred_samples

\* C8: when update_average_capability has run in a round, the staleness
\* factor it used is the one of that round's migration, 3D / (3D + T) of the
\* shuffled devices.
C8_StalenessRecomputedEveryRound ==
  LastStep = "update_average_capability" =>
    staleness_factor = compute_staleness_factor(devices)

IsPrefix(a, b) == Len(a) <= Len(b) /\ a = SubSeq(b, 1, Len(a))

RoundOrder ==
  <<"reduce_dimensionality", "optimize_transmission_matrices", "shuffle_data",
    "update_average_capability", "train_devices", "aggregate_updates">>

InRoundOrder(name) == name \in Range(RoundOrder)

C10_NoPartialMigration ==
  eval_pc = "raised" => devices = at_shuffle

\* ------------------------------------------- the solver's constraint calls
\* What a call that is not part of the round's sequence leaves alone.
fitVars ==
  <<devices, userVars, round, step, evals, current_datasets, current_kd_datasets,
    cursor, at_call, at_shuffle, last_transfer, steps>>

\* Matrices with the value d on every diagonal ("send to self") entry and o
\* on every other entry.
Blend(d, o) ==
  [a \in 1 .. NumDevices |-> [c \in 1 .. NumClusters |-> [b \in 1 .. NumDevices |->
     IF b = a THEN d ELSE o]]]

\* m with the entry (sender i, cluster k, receiver j) set to p.
WithEntry(m, i, k, j, p) == [m EXCEPT ![i + 1][k + 1][j + 1] = p]

\* Iterates whose diagonal entries are all at least epsilon ...
FloorRespected == {Blend(d, o) : d \in {Epsilon, 50, One}, o \in {0, 25}}

\* ... and the same with one row's diagonal entry below epsilon.
FloorViolated ==
  {WithEntry(m, i, k, i, 0) : m \in FloorRespected, i \in Dev, k \in Clusters}

Iterates == {ZeroMatrices} \cup FloorRespected \cup FloorViolated

\* minimize() is running on a freshly built group: SLSQP evaluates the two
\* 'ineq' constraint functions at its current iterate.
InitConstraints ==
  /\ \E shard \in Shards, draw \in RandomDraws : UserInit(shard, draw)
  /\ round = 1
  /\ step = 2
  /\ eval_pc = "minimize"
  /\ evals = 0
  /\ x \in Iterates
  /\ current_datasets = [i \in Dev |-> <<>>]
  /\ current_kd_datasets = [i \in Dev |-> <<>>]
  /\ cursor = 0
  /\ at_call = Snapshot
  /\ at_shuffle = devices
  /\ last_transfer = NoTransfer
  /\ steps = <<"reduce_dimensionality">>
  /\ OtherInit

\* constraints[0]['fun'](variables)
CallRowLessThanOne ==
  /\ eval_pc = "minimize"
  /\ row_sums = <<>>
  /\ row_sums' = row_less_than_one(Flatten(x), NumDevices, NumClusters)
  /\ UNCHANGED <<fitVars, eval_pc, x, result, self_column, evaluations, interleaved,
                 server, adaptive_scaling_factor>>

\* constraints[1]['fun'](variables)
CallNonZeroSelfColumn ==
  /\ eval_pc = "minimize"
  /\ self_column = <<>>
  /\ self_column' = non_zero_self_column(Flatten(x), NumDevices, NumClusters)
  /\ UNCHANGED <<fitVars, eval_pc, x, result, row_sums, evaluations, interleaved,
                 server, adaptive_scaling_factor>>

NextConstraints ==
  \/ CallRowLessThanOne
  \/ CallNonZeroSelfColumn

SpecConstraints == InitConstraints /\ [][NextConstraints]_vars

\* The position of row (device i, cluster k) in a constraint's value.
RowIndex(i, k) == i * NumClusters + k + 1

\* C11: non_zero_self_column returns, for every device i and cluster row k,
\* matrices[i][k][i] - epsilon; so the value has a negative component when a
\* row's diagonal entry is below epsilon, and none when every diagonal entry
\* is at least epsilon.
C11_SelfRetentionFloor ==
  self_column # <<>> =>
    /\ Len(self_column) = NumDevices * NumClusters
    /\ \A i \in Dev, k \in Clusters :
         self_column[RowIndex(i, k)] = x[i + 1][k + 1][i + 1] - Epsilon
    /\ \A i \in Dev, k \in Clusters :
         x[i + 1][k + 1][i + 1] < Epsilon => self_column[RowIndex(i, k)] < 0
    /\ (\A i \in Dev, k \in Clusters : x[i + 1][k + 1][i + 1] >= Epsilon)
         => \A n \in 1 .. Len(self_column) : self_column[n] >= 0

\* The constraint has been evaluated at a B that is an A of FloorRespected
\* but for one diagonal entry, of a device other than the first.
C11_Witness ==
  /\ self_column # <<>>
  /\ \E m \in FloorRespected, i \in Dev \ {0}, k \in Clusters :
       /\ x = WithEntry(m, i, k, i, 0)
       /\ m[1][1][2] > 0
       /\ self_column[RowIndex(i, k)] < 0
       /\ \A n \in 1 .. Len(self_column) : n # RowIndex(i, k) => self_column[n] >= 0

\* The mass of row (device i, cluster k) over all receiving devices.
RowMass(m, i, k) == SumSeq([j \in 1 .. NumDevices |-> m[i + 1][k + 1][j]])

\* C12: row_less_than_one returns one value 1 - sum(row) per (device,
\* cluster) row, N*K in all; all are >= 0 exactly when every row's mass over
\* all receivers, the diagonal included, is at most 1.
C12_RowSumBound ==
  row_sums # <<>> =>
    /\ Len(row_sums) = NumDevices * NumClusters
    /\ \A i \in Dev, k \in Clusters : row_sums[RowIndex(i, k)] = One - RowMass(x, i, k)
    /\ (\A n \in 1 .. Len(row_sums) : row_sums[n] >= 0)
         <=> (\A i \in Dev, k \in Clusters : RowMass(x, i, k) <= One)

\* A row whose mass exceeds 1 only because of its diagonal entry, next to a
\* row of the same iterate that is within the bound.
C12_Witness ==
  /\ row_sums # <<>>
  /\ \E i \in Dev, k \in Clusters :
       /\ RowMass(x, i, k) > One
       /\ RowMass(x, i, k) - x[i + 1][k + 1][i + 1] <= One
       /\ row_sums[RowIndex(i, k)] < 0
  /\ \E i \in Dev, k \in Clusters : row_sums[RowIndex(i, k)] >= 0

\* ------------------------------------------ capability / staleness tracker
\* A caller drives the tracker's two methods, compute_staleness_factor and
\* update_average_capability, in any order on a group whose data is clustered
\* and has been migrated.

\* Cap on the calls the caller makes.
MaxCalls == 3

\* How many of the calls made so far were calls of name.
CallsOf(name) == Cardinality({n \in DOMAIN steps : steps[n] = name})

\* Dataset sizes of the group's devices: all empty, one device holding the
\* whole corpus, and the 300 samples of the staleness scenario.
GroupSizes ==
  {[i \in Dev |-> 0],
   [i \in Dev |-> IF i = 0 THEN NumSamples ELSE 0],
   [i \in Dev |-> 300 \div NumDevices]}

\* num_transferred_samples of the devices: none, one transfer of one sample,
\* every sample of the corpus sent on by every device, and the 600 of the
\* staleness scenario.
GroupTransferred ==
  {[i \in Dev |-> 0],
   [i \in Dev |-> IF i <= 1 THEN 1 ELSE 0],
   [i \in Dev |-> 2 * NumSamples],
   [i \in Dev |-> 600 \div NumDevices]}

\* A device holding n samples, all labelled with cluster 0, and a counter.
TrackedDevice(i, n, transferred) ==
  [dataset |-> [s \in 1 .. n |-> s * NumDevices + i],
   clusters |-> [s \in 1 .. n |-> 0],
   kd_dataset |-> <<>>,
   num_transferred_samples |-> transferred]

\* sum(len(device.dataset)) and sum(device.num_transferred_samples).
DatasetSize(ds) == SumSeq(ListOf([i \in Dev |-> Len(ds[i].dataset)], NumDevices))
NumTransferred(ds) ==
  SumSeq(ListOf([i \in Dev |-> ds[i].num_transferred_samples], NumDevices))

InitTracker ==
  /\ \E sizes \in GroupSizes, transferred \in GroupTransferred, draw \in RandomDraws :
       /\ UserFields(draw)
       /\ devices = [i \in Dev |-> TrackedDevice(i, sizes[i], transferred[i])]
  /\ round = 1
  /\ step = 0
  /\ eval_pc = "tracking"
  /\ evals = 0
  /\ x = ZeroMatrices
  /\ current_datasets = [i \in Dev |-> <<>>]
  /\ current_kd_datasets = [i \in Dev |-> <<>>]
  /\ cursor = 0
  /\ at_call = Snapshot
  /\ at_shuffle = devices
  /\ last_transfer = NoTransfer
  /\ steps = <<>>
  /\ OtherInit

\* User.compute_staleness_factor(): the division raises ZeroDivisionError
\* when 3 * dataset_size + num_transferred_samples is 0.
CallComputeStalenessFactor ==
  /\ eval_pc = "tracking"
  /\ Len(steps) < MaxCalls
  /\ at_call' = Snapshot
  /\ steps' = Append(steps, "compute_staleness_factor")
  /\ IF compute_staleness_factor(devices) = <<0, 0>>
     THEN eval_pc' = "raised" /\ UNCHANGED staleness_factor
     ELSE staleness_factor' = compute_staleness_factor(devices) /\ UNCHANGED eval_pc
  /\ UNCHANGED <<otherVars, result, devices, transition_matrices, system_latencies,
                 data_imbalances, kd_dataset, diff_capability, average_power,
                 average_bandwidth, round, step, evals, x, current_datasets,
                 current_kd_datasets, cursor, at_shuffle, last_transfer>>

CallUpdateAverageCapability_keeps_previous ==
  /\ eval_pc = "tracking"
  /\ Len(steps) < MaxCalls
  /\ diff_capability' = DiffCapability(staleness_factor, average_power, average_bandwidth)
  /\ steps' = Append(steps, "update_average_capability")
  /\ UNCHANGED <<otherVars, result, devices, transition_matrices, system_latencies,
                 data_imbalances, kd_dataset, staleness_factor, average_power,
                 average_bandwidth, round, step, eval_pc, evals, x, current_datasets,
                 current_kd_datasets, cursor, at_call, at_shuffle, last_transfer>>

\* User.update_average_capability()
CallUpdateAverageCapability ==
  /\ eval_pc = "tracking"
  /\ Len(steps) < MaxCalls
  /\ diff_capability' = DiffCapability(staleness_factor, average_power, average_bandwidth)
  /\ average_power' = AveragePower
  /\ average_bandwidth' = AverageBandwidth
  /\ steps' = Append(steps, "update_average_capability")
  /\ UNCHANGED <<otherVars, result, devices, transition_matrices, system_latencies,
                 data_imbalances, kd_dataset, staleness_factor, round, step, eval_pc,
                 evals, x, current_datasets, current_kd_datasets, cursor, at_call,
                 at_shuffle, last_transfer>>

NextTracker ==
  \/ CallComputeStalenessFactor
  \/ CallUpdateAverageCapability

SpecTracker == InitTracker /\ [][NextTracker]_vars

RatLess(a, b) == a[1] * b[2] < b[1] * a[2]

JustComputed == LastStep = "compute_staleness_factor" /\ eval_pc # "raised"

\* The same devices after one more sample was counted as transferred.
MoreTransferred(ds) == [ds EXCEPT ![0].num_transferred_samples = @ + 1]

\* C13: compute_staleness_factor sets staleness_factor = 3D / (3D + T); for
\* D > 0 it never raises, lies in [0,1], is exactly 1 when T = 0, is 0.6 for
\* D = 300 and T = 600, and is strictly lower for the same D and a larger T.
C13_StalenessFormula ==
  (LastStep = "compute_staleness_factor" /\ DatasetSize(devices) > 0) =>
    /\ eval_pc # "raised"
    /\ staleness_factor[2] > 0
    /\ staleness_factor[1] * (3 * DatasetSize(devices) + NumTransferred(devices))
         = 3 * DatasetSize(devices) * staleness_factor[2]
    /\ 0 <= staleness_factor[1] /\ staleness_factor[1] <= staleness_factor[2]
    /\ NumTransferred(devices) = 0 => staleness_factor = <<1, 1>>
    /\ (DatasetSize(devices) = 300 /\ NumTransferred(devices) = 600)
         => staleness_factor = <<3, 5>>
    /\ RatLess(compute_staleness_factor(MoreTransferred(devices)), staleness_factor)

\* The staleness scenario: 300 samples held, 600 transferred, 0.6 computed.
C13_Witness ==
  /\ JustComputed
  /\ DatasetSize(devices) = 300
  /\ NumTransferred(devices) = 600
  /\ staleness_factor = <<3, 5>>

\* C14: with every dataset empty and nothing transferred (D = 0, T = 0)
\* compute_staleness_factor completes without raising and leaves a value in
\* [0,1].
C14_EmptyGroupTolerated ==
  (/\ LastStep = "compute_staleness_factor"
   /\ DatasetSize(devices) = 0
   /\ NumTransferred(devices) = 0) =>
    /\ eval_pc # "raised"
    /\ 0 <= staleness_factor[1] /\ staleness_factor[1] <= staleness_factor[2]

\* C19: from the second call of update_average_capability on, diff_capability
\* is exactly 1 whatever the staleness factor; only the first call, which
\* compares with the randomly drawn initial averages, can give another value.
C19_CapabilityRatioIsOneAfterFirstCall ==
  (LastStep = "update_average_capability" /\ CallsOf("update_average_capability") >= 2)
    => diff_capability = <<1, 1>>

\* A second call made with a staleness factor strictly between 0 and 1.
C19_Witness ==
  /\ LastStep = "update_average_capability"
  /\ CallsOf("update_average_capability") = 2
  /\ RatLess(<<0, 1>>, staleness_factor)
  /\ RatLess(staleness_factor, <<1, 1>>)
  /\ diff_capability = <<1, 1>>
  /\ average_power = AveragePower

\* ----------------------------------------------------------- latency model
\* C15: when the round has measured its latencies, of two devices with the
\* same non-empty dataset the one with the larger compute capability has the
\* strictly lower computation time; a device's computation time does not
\* decrease when its dataset grows; and the communication time counts no
\* entry from a device to itself.
C15_LatencyMonotone ==
  LastStep = "latency_devices" =>
    /\ \A i \in Dev, j \in Dev :
         (/\ Len(devices[i].dataset) = Len(devices[j].dataset)
          /\ Len(devices[i].dataset) > 0
          /\ Compute[i] > Compute[j])
           => t_computation(devices[i], i, OnDeviceEpochs)
                < t_computation(devices[j], j, OnDeviceEpochs)
    /\ \A i \in Dev :
         Len(at_shuffle[i].dataset) <= Len(devices[i].dataset)
           => t_computation(at_shuffle[i], i, OnDeviceEpochs)
                <= t_computation(devices[i], i, OnDeviceEpochs)
    /\ \A i \in Dev :
         system_latencies[i]
           = RatAdd(t_communication(i, 1),
                    <<t_computation(devices[i], i, OnDeviceEpochs), 1>>)

\* ------------------------------------------------------ solver's last iterate
\* C16: whatever minimize() returned, converged or not, the end of
\* optimize_transmission_matrices neither raises nor keeps the previous
\* matrices: self.transition_matrices becomes the final iterate, entry for
\* entry, in the shape (num_devices, K, num_devices) of the warm start.
C16_LastIterateAlwaysUsed ==
  [][eval_pc = "minimized" =>
       /\ Len(result.x) = NumDevices * NumClusters * NumDevices
       /\ WellShaped(transition_matrices) /\ WellShaped(transition_matrices')
       /\ \A i \in Dev, k \in Clusters, j \in Dev :
            transition_matrices'[i + 1][k + 1][j + 1]
              = result.x[i * NumClusters * NumDevices + k * NumDevices + j + 1]
       /\ eval_pc' = "idle"
       /\ steps' = Append(steps, "optimize_transmission_matrices")]_vars

\* The solver has returned without converging, with an iterate that is not
\* the warm start.
C16_Witness ==
  /\ eval_pc = "minimized"
  /\ ~result.success
  /\ result.x # Flatten(transition_matrices)
  /\ transition_matrices # ZeroMatrices

\* ------------------------------------------- interleaved objective evaluations
\* Two activations of objective_function on the same clustered group, as a
\* solver evaluating in parallel would make them.  Each runs once through its
\* four parts; the parts of the two interleave freely.

InitInterleaved ==
  /\ \E shard \in Shards, draw \in RandomDraws, predict \in Estimators :
       /\ UserFields(draw)
       /\ devices = [i \in Dev |-> cluster(NewDevice(ShardOf(shard, i)), predict)]
  /\ round = 1
  /\ step = 2
  /\ eval_pc = "concurrent"
  /\ evals = 0
  /\ x = ZeroMatrices
  /\ current_datasets = [i \in Dev |-> <<>>]
  /\ current_kd_datasets = [i \in Dev |-> <<>>]
  /\ cursor = 0
  /\ at_call = Snapshot
  /\ at_shuffle = devices
  /\ last_transfer = NoTransfer
  /\ steps = <<"reduce_dimensionality">>
  /\ OtherInit

\* The iterates the two evaluations are made at: no transfer, every device
\* passing a cluster on to the next device, every device routing cluster 0
\* into the pool.
ParallelIterates ==
  {ZeroMatrices, Rotation(0, 0, One)} \cup {Rotation(k, 1, One) : k \in Clusters}

\* What the parts of an evaluation leave alone.
concurrentVars ==
  <<transition_matrices, kd_dataset, staleness_factor, diff_capability, average_power,
    average_bandwidth, round, step, eval_pc, evals, x, current_datasets,
    current_kd_datasets, cursor, at_call, at_shuffle, last_transfer, steps, result,
    row_sums, self_column, server, adaptive_scaling_factor>>

\* Another evaluation has shuffled the devices and not yet restored them.
OtherHasShuffled(e) ==
  \E o \in Evaluations \ {e} : evaluations[o].pc \in {"measure", "restore"}

\* objective_function, first part (lines 181-190), for evaluation e.
ConcurrentBegin(e) ==
  /\ eval_pc = "concurrent"
  /\ evaluations[e].pc = "idle"
  /\ \E cand \in ParallelIterates :
       evaluations' = [evaluations EXCEPT ![e] =
         [pc |-> "shuffle",
          transfer_matrices |-> cand,
          current_datasets |-> [i \in Dev |-> devices[i].dataset],
          current_kd_datasets |-> [i \in Dev |-> devices[i].kd_dataset]]]
  /\ devices' = [i \in Dev |-> [devices[i] EXCEPT !.num_transferred_samples = 0]]
  /\ interleaved' = (interleaved \/ OtherHasShuffled(e))
  /\ UNCHANGED <<concurrentVars, system_latencies, data_imbalances>>

\* self.shuffle_data(transfer_matrices)
ConcurrentShuffle(e) ==
  /\ evaluations[e].pc = "shuffle"
  /\ devices' = shuffle_data(devices, evaluations[e].transfer_matrices).devices
  /\ evaluations' = [evaluations EXCEPT ![e].pc = "measure"]
  /\ UNCHANGED <<concurrentVars, system_latencies, data_imbalances, interleaved>>

\* latencies and data imbalances of the devices as they are
ConcurrentMeasure(e) ==
  /\ evaluations[e].pc = "measure"
  /\ system_latencies' = latency_devices(devices, 1)
  /\ data_imbalances' = data_imbalance_devices(devices)
  /\ evaluations' = [evaluations EXCEPT ![e].pc = "restore"]
  /\ UNCHANGED <<concurrentVars, devices, interleaved>>

\* the restore loop, and the return of the objective value
ConcurrentRestore(e) ==
  /\ evaluations[e].pc = "restore"
  /\ devices' = [i \in Dev |->
                   RestoreDevice(devices[i], evaluations[e].current_datasets[i],
                                 evaluations[e].current_kd_datasets[i])]
  /\ evaluations' = [evaluations EXCEPT ![e].pc = "returned"]
  /\ UNCHANGED <<concurrentVars, system_latencies, data_imbalances, interleaved>>

NextInterleaved ==
  \/ \E e \in Evaluations : ConcurrentBegin(e)
  \/ \E e \in Evaluations : ConcurrentShuffle(e)
  \/ \E e \in Evaluations : ConcurrentMeasure(e)
  \/ \E e \in Evaluations : ConcurrentRestore(e)

SpecInterleaved == InitInterleaved /\ [][NextInterleaved]_vars

BothReturned == \A e \in Evaluations : evaluations[e].pc = "returned"

DatasetsAsBefore == \A i \in Dev : devices[i].dataset = at_call.devices[i].dataset

\* C17: when two evaluations have both returned and neither took its snapshot
\* between the other's shuffle and restore (in particular when they ran one
\* after the other), every device's dataset is its pre-evaluation dataset;
\* with such an interleaving a state with a different dataset is reachable.
C17_SequentialEvaluationsRestore ==
  (BothReturned /\ ~interleaved) => DatasetsAsBefore

\* Both have returned after an interleaving, and a dataset is not what it
\* was before the evaluations.
C17_Witness ==
  /\ BothReturned
  /\ interleaved
  /\ ~DatasetsAsBefore

\* ------------------------------------------------------------ Server.train
\* Cap on the calls of Server.train (the federated rounds of the server).
MaxTrainCalls == 2

\* What Server.train leaves alone.
serverOtherVars ==
  <<fitVars, eval_pc, x, result, row_sums, self_column, evaluations, interleaved>>

\* time.time() differences measured by _poll_users, one per user.
TrainingTimes == [Users -> {1, 2}]

\* What the users report as diff_capability(): the value of a first
\* update_average_capability call, or the 1 of the later ones.
UserDiffCapabilities ==
  [Users -> {<<1, 1>>, DiffCapability(<<0, 1>>, <<6, 1>>, <<6, 1>>)}]

\* statistics.fmean of a list of values.
RECURSIVE RatSum(_)
RatSum(s) == IF s = <<>> THEN <<0, 1>> ELSE RatAdd(Head(s), RatSum(Tail(s)))
fmean(s) == RatDiv(RatSum(s), <<Len(s), 1>>)

\* Server._send_adaptive_scaling_factor (Equation 10), scaling_factor = 0.5:
\* (avg_user_performance / performance) * self.scaling_factor for every user.
send_adaptive_scaling_factor(times, diffs) ==
  LET estimated_performances == [u \in Users |-> RatMul(diffs[u], <<times[u], 1>>)]
      avg_user_performance == fmean(ListOf(estimated_performances, TotalUsers))
  IN [u \in Users |->
        RatMul(RatDiv(avg_user_performance, estimated_performances[u]), <<1, 2>>)]

InitServer ==
  /\ \E shard \in Shards, draw \in RandomDraws : UserInit(shard, draw)
  /\ round = 1
  /\ step = 0
  /\ eval_pc = "server"
  /\ evals = 0
  /\ x = ZeroMatrices
  /\ current_datasets = [i \in Dev |-> <<>>]
  /\ current_kd_datasets = [i \in Dev |-> <<>>]
  /\ cursor = 0
  /\ at_call = Snapshot
  /\ at_shuffle = devices
  /\ last_transfer = NoTransfer
  /\ steps = <<>>
  /\ OtherInit

\* train() is called: self._select_users(), self.logger.new_epoch(...).
TrainSelectUsers ==
  /\ eval_pc = "server"
  /\ server.pc = "idle"
  /\ server.epoch < MaxTrainCalls
  /\ server' = [server EXCEPT !.pc = "send", !.epoch = @ + 1, !.log = <<"select_users">>]
  /\ UNCHANGED <<serverOtherVars, adaptive_scaling_factor>>

\* if self.init: self._send_adaptive_scaling_factor()
TrainSendAdaptiveScalingFactor ==
  /\ server.pc = "send"
  /\ server.init
  /\ \E diffs \in UserDiffCapabilities :
       adaptive_scaling_factor'
         = send_adaptive_scaling_factor(server.wall_clock_training_times, diffs)
  /\ server' = [server EXCEPT !.pc = "poll",
                              !.log = Append(@, "send_adaptive_scaling_factor")]
  /\ UNCHANGED serverOtherVars

\* ... not taken while init is false.
TrainSkipSend ==
  /\ server.pc = "send"
  /\ ~server.init
  /\ server' = [server EXCEPT !.pc = "poll"]
  /\ UNCHANGED <<serverOtherVars, adaptive_scaling_factor>>

\* self._poll_users(...): every user trains, its wall-clock time is stored.
TrainPollUsers ==
  /\ server.pc = "poll"
  /\ \E times \in TrainingTimes :
       server' = [server EXCEPT !.pc = "aggregate",
                                !.wall_clock_training_times = times,
                                !.log = Append(@, "poll_users")]
  /\ UNCHANGED <<serverOtherVars, adaptive_scaling_factor>>

\* self._aggregate_updates(), self.logger.s_log_latency(...)
TrainAggregateUpdates ==
  /\ server.pc = "aggregate"
  /\ server' = [server EXCEPT !.pc = "end", !.log = Append(@, "aggregate_updates")]
  /\ UNCHANGED <<serverOtherVars, adaptive_scaling_factor>>

TrainEnd_keeps_flag ==
  /\ server.pc = "end"
  /\ server' = [server EXCEPT !.pc = "idle"]
  /\ UNCHANGED <<serverOtherVars, adaptive_scaling_factor>>

\* if not self.init: self.init = True; train() returns.
TrainEnd ==
  /\ server.pc = "end"
  /\ server' = [server EXCEPT !.pc = "idle", !.init = IF ~@ THEN TRUE ELSE @]
  /\ UNCHANGED <<serverOtherVars, adaptive_scaling_factor>>

NextServer ==
  \/ TrainSelectUsers
  \/ TrainSendAdaptiveScalingFactor
  \/ TrainSkipSend
  \/ TrainPollUsers
  \/ TrainAggregateUpdates
  \/ TrainEnd

SpecServer == InitServer /\ [][NextServer]_vars

\* What a train() call has done so far, in a first round and in a later one.
FirstRoundLog == <<"select_users", "poll_users", "aggregate_updates">>
LaterRoundLog ==
  <<"select_users", "send_adaptive_scaling_factor", "poll_users", "aggregate_updates">>

\* C18: in the first round the adaptive scaling factor is not sent and the
\* users keep their initial factor; in every later round it is sent, before
\* the users are polled and before aggregation; init is false until the end
\* of the first round and true ever after.
C18_ScalingFactorSentFromSecondRound ==
  /\ server.epoch <= 1 =>
       /\ IsPrefix(server.log, FirstRoundLog)
       /\ adaptive_scaling_factor = [u \in Users |-> <<1, 1>>]
  /\ server.epoch >= 2 =>
       /\ IsPrefix(server.log, LaterRoundLog)
       /\ server.pc \in {"poll", "aggregate", "end", "idle"} => Len(server.log) >= 2
  /\ server.init <=> (server.epoch >= 2 \/ (server.epoch = 1 /\ server.pc = "idle"))

\* A later round has run to its end, and the factor it sent is not the
\* initial one.
C18_Witness ==
  /\ server.epoch >= 2
  /\ server.pc = "idle"
  /\ server.init
  /\ server.log = LaterRoundLog
  /\ \E u \in Users : adaptive_scaling_factor[u] # <<1, 1>>

\* ------------------------------------------------- one move per sample
\* The calls of shuffle_data with the devices processed in the opposite order.
RECURSIVE CallsDownFrom(_, _)
CallsDownFrom(matrices, m) ==
  IF m < 1 THEN <<>>
  ELSE MatrixCalls(m - 1, matrices[m]) \o CallsDownFrom(matrices, m - 1)

====
